---------------------------- MODULE Spec2Model ----------------------------
(***************************************************************************)
(* Model of the two dataset curation scripts of pyro-dataset:              *)
(*   scripts/filter_data_pyronear_ds_smoke.py  (smoke filter pipeline)     *)
(*   scripts/split_false_positives.py          (split assigner pipeline)   *)
(*                                                                         *)
(* Strings are sequences of atomic tokens ("images", ".jpg", "_", "-",     *)
(* digits, words).  The token alphabet is chosen so that no occurrence of  *)
(* "images", ".jpg", "_" or "-" straddles two tokens: str.replace and      *)
(* str.split then act token by token.  A file or directory name is a       *)
(* sequence of tokens, a path a sequence of names.                         *)
(* The filesystem is a function from the existing paths to their entries.  *)
(***************************************************************************)
EXTENDS Integers, Sequences, FiniteSets, TLC

VARIABLES
    script,             \* which script this process runs: "filter" or "split"
    pc,                 \* position in the script's __main__ block
    run,                \* 1 for the first invocation, 2 for the re-run
    status,             \* process exit status, NoStatus while running
    args,               \* the parsed command line (argparse namespace)
    fs,                 \* the filesystem: path -> entry
    fs0,                \* the filesystem when this invocation started
    rev,                \* directory iteration order of this invocation
    folders,            \* list_directories(dir_dataset) as seen by make_data_split
    filepaths_images,   \* filter: list_dataset_images(dir_dataset)
    kept,               \* filter: filepaths_images_with_smoke
    data_split,         \* split: the DataSplit returned by make_data_split
    cursor,             \* index of the next element of the copy loop
    ops,                \* filesystem operations performed by this invocation
    written,            \* destination images written by this invocation: dst -> src
    hist                \* what the first invocation saw and left behind

vars == <<script, pc, run, status, args, fs, fs0, rev, folders, filepaths_images,
          kept, data_split, cursor, ops, written, hist>>

-----------------------------------------------------------------------------
(* Bounds of the model.                                                    *)

\* Largest number of image files in the dataset of the filter script.
MaxImages == 2
\* Largest number of session folders in the dataset of the split script.
MaxFolders == 3
\* Largest --random-seed tried.
MaxSeed == 1
\* Largest number of folders in the boundary rule's specification.
MaxN == 10

NoStatus == 0 - 1

-----------------------------------------------------------------------------
(* Generic helpers.                                                        *)

RECURSIVE Enumerate(_)
\* The elements of a finite set in one fixed order.
Enumerate(S) ==
    IF S = {} THEN <<>>
    ELSE LET x == CHOOSE y \in S : TRUE IN <<x>> \o Enumerate(S \ {x})

Reverse(s) == [i \in 1..Len(s) |-> s[Len(s) + 1 - i]]

Range(s) == {s[i] : i \in DOMAIN s}

RECURSIVE Flatten(_)
\* The concatenation of a sequence of sequences.
Flatten(ss) == IF ss = <<>> THEN <<>> ELSE Head(ss) \o Flatten(Tail(ss))

Last(s) == s[Len(s)]

Front(s) == SubSeq(s, 1, Len(s) - 1)

\* Path.parent chain: every proper and improper prefix directory of p.
Prefixes(p) == {SubSeq(p, 1, k) : k \in 1..Len(p)}

IsPrefix(d, p) == Len(d) <= Len(p) /\ SubSeq(p, 1, Len(d)) = d

-----------------------------------------------------------------------------
(* Filesystem.                                                             *)

Dir == [kind |-> "dir"]
File(bytes) == [kind |-> "file", data |-> bytes]

Exists(f, p) == p \in DOMAIN f
IsFile(f, p) == Exists(f, p) /\ f[p].kind = "file"
IsDir(f, p) == Exists(f, p) /\ f[p].kind = "dir"

Put(f, p, e) == [q \in DOMAIN f \cup {p} |-> IF q = p THEN e ELSE f[q]]

\* Path.mkdir(parents=True, exist_ok=True)
MkdirP(f, p) ==
    [q \in DOMAIN f \cup Prefixes(p) |-> IF q \in DOMAIN f THEN f[q] ELSE Dir]

\* A buggy copy that appends to an existing destination instead of replacing it.
CopyAppend(f, src, dst) ==
    LET target == IF IsDir(f, dst) THEN Append(dst, Last(src)) ELSE dst
        old == IF IsFile(f, target) THEN f[target].data ELSE <<>>
    IN Put(f, target, File(old \o f[src].data))

\* shutil.copy(src, dst): the bytes of src replace dst (or go into dst, a directory).
Copy(f, src, dst) ==
    LET target == IF IsDir(f, dst) THEN Append(dst, Last(src)) ELSE dst
    IN Put(f, target, File(f[src].data))

\* Path.touch(): creates an empty file, leaves an existing one as it is.
Touch(f, p) == IF Exists(f, p) THEN f ELSE Put(f, p, File(<<>>))

\* The files below directory d, as a map from the path relative to d to the bytes.
Tree(f, d) ==
    LET below == {p \in DOMAIN f : IsPrefix(d, p) /\ Len(p) > Len(d) /\ f[p].kind = "file"}
    IN [r \in {SubSeq(p, Len(d) + 1, Len(p)) : p \in below} |-> f[d \o r].data]

\* Path.glob("**/*.jpg"): every path below d whose name ends in ".jpg".
GlobJpg(f, d, reversed) ==
    LET hit == {p \in DOMAIN f : IsPrefix(d, p) /\ Len(p) > Len(d) /\ Last(Last(p)) = ".jpg"}
    IN IF reversed THEN Reverse(Enumerate(hit)) ELSE Enumerate(hit)


-----------------------------------------------------------------------------
(* filter_data_pyronear_ds_smoke.py                                        *)

\* str.replace("images", "labels").replace(".jpg", ".txt") on one token.
ReplaceToken(t) ==
    IF t = "images" THEN "labels" ELSE IF t = ".jpg" THEN ".txt" ELSE t

\* filepath_image_to_filepath_label: the replacement runs over the whole path string.
filepath_image_to_filepath_label(filepath_image) ==
    [i \in DOMAIN filepath_image |->
        [j \in DOMAIN filepath_image[i] |-> ReplaceToken(filepath_image[i][j])]]

\* list_dataset_images
list_dataset_images(f, dir_dataset, reversed) == GlobJpg(f, dir_dataset, reversed)

\* A smoke test that forgets the size test: any regular label file counts.
HasSmokeAnyFile(f, filepath_label) ==
    Exists(f, filepath_label) /\ IsFile(f, filepath_label)

\* has_smoke: exists() and is_file() and st_size > 0, evaluated left to right.
has_smoke(f, filepath_label) ==
    /\ Exists(f, filepath_label)
    /\ IsFile(f, filepath_label)
    /\ Len(f[filepath_label].data) > 0

\* str.lower() on one token.
Lower(t) ==
    CASE t = "PYRONEAR" -> "pyronear"
      [] t = "Brison" -> "brison"
      [] OTHER -> t

\* str.split("_")[0]: the tokens before the first "_".
FirstUnderscoreToken(name) ==
    LET cut == {i \in DOMAIN name : name[i] = "_"}
        stop == IF cut = {} THEN Len(name) + 1
                ELSE CHOOSE i \in cut : \A j \in cut : i <= j
    IN SubSeq(name, 1, stop - 1)

\* has_dataset_prefix
has_dataset_prefix(filepath_image, allowed_prefixes) ==
    LET first == FirstUnderscoreToken(Last(filepath_image))
        prefix == [i \in DOMAIN first |-> Lower(first[i])]
    IN prefix \in Range(allowed_prefixes)

\* filter_dataset: a stable filter of the listed images.
filter_dataset(f, images, allowed_dataset_prefixes) ==
    SelectSeq(images,
        LAMBDA filepath_image :
            /\ has_smoke(f, filepath_image_to_filepath_label(filepath_image))
            /\ has_dataset_prefix(filepath_image, allowed_dataset_prefixes))

\* A validation that accepts every command line.
ValidateAnything(f, a) == TRUE

\* validate_parsed_args (both scripts): the dataset root must exist.
validate_parsed_args(f, a) == Exists(f, a.dir_dataset)

\* Path.relative_to(dir_dataset) succeeds only below dir_dataset.
CanRelativeTo(p, base) == IsPrefix(base, p)
relative_to(p, base) == SubSeq(p, Len(base) + 1, Len(p))

\* A copy_over that drops the directories: every file lands directly in save_dir.
copy_over_step_flat(f, filepath_image, save_dir, dir_dataset) ==
    LET filepath_label == filepath_image_to_filepath_label(filepath_image)
        f1 == MkdirP(f, save_dir)
        f2 == Copy(f1, filepath_image, Append(save_dir, Last(filepath_image)))
    IN Copy(f2, filepath_label, Append(save_dir, Last(filepath_label)))

\* One iteration of copy_over's loop; the caller has checked that it does not raise.
copy_over_step(f, filepath_image, save_dir, dir_dataset) ==
    LET filepath_label == filepath_image_to_filepath_label(filepath_image)
        filepath_image_destination == save_dir \o relative_to(filepath_image, dir_dataset)
        filepath_label_destination == save_dir \o relative_to(filepath_label, dir_dataset)
        f1 == MkdirP(f, Front(filepath_image_destination))
        f2 == MkdirP(f1, Front(filepath_label_destination))
        f3 == Copy(f2, filepath_image, filepath_image_destination)
    IN Copy(f3, filepath_label, filepath_label_destination)

\* Whether the iteration of copy_over on this image raises: ValueError from
\* relative_to before anything is created, or an error from shutil.copy after the
\* two mkdir calls.
copy_over_raises(f, filepath_image, dir_dataset) ==
    LET filepath_label == filepath_image_to_filepath_label(filepath_image)
    IN \/ ~CanRelativeTo(filepath_label, dir_dataset)
       \/ ~IsFile(f, filepath_image)
       \/ ~IsFile(f, filepath_label)

\* The filesystem a raising iteration of copy_over leaves behind.
copy_over_raised(f, filepath_image, save_dir, dir_dataset) ==
    LET filepath_label == filepath_image_to_filepath_label(filepath_image)
    IN IF ~CanRelativeTo(filepath_label, dir_dataset) THEN f
       ELSE MkdirP(MkdirP(f, Front(save_dir \o relative_to(filepath_image, dir_dataset))),
                   Front(save_dir \o relative_to(filepath_label, dir_dataset)))

-----------------------------------------------------------------------------
(* split_false_positives.py: strings and numbers                           *)

IsDigit(t) == t \in {"0", "1", "2", "3", "4", "5", "6", "7", "8", "9"}

DigitVal(t) ==
    CASE t = "0" -> 0 [] t = "1" -> 1 [] t = "2" -> 2 [] t = "3" -> 3
      [] t = "4" -> 4 [] t = "5" -> 5 [] t = "6" -> 6 [] t = "7" -> 7
      [] t = "8" -> 8 [] t = "9" -> 9

DigitTok(d) == <<"0", "1", "2", "3", "4", "5", "6", "7", "8", "9">>[d + 1]

\* Whether int(s) and the numeric directives of strptime accept the string.
IsNumber(s) == Len(s) > 0 /\ \A i \in DOMAIN s : IsDigit(s[i])

RECURSIVE ParseInt(_)
\* int(s) of a string of decimal digits: leading zeros are dropped.
ParseInt(s) ==
    IF s = <<>> THEN 0 ELSE 10 * ParseInt(Front(s)) + DigitVal(Last(s))

RECURSIVE FormatInt(_)
\* str(n) of a natural number: no leading zeros.
FormatInt(n) ==
    IF n < 10 THEN <<DigitTok(n)>> ELSE FormatInt(n \div 10) \o <<DigitTok(n % 10)>>

RECURSIVE PadLeft(_, _)
\* A digit string padded with zeros on the left to at least w digits.
PadLeft(body, w) == IF Len(body) >= w THEN body ELSE PadLeft(<<"0">> \o body, w)

\* A number on at least w digits, as strftime's %Y, %m, %d, %H, %M, %S format it.
ZeroPad(n, w) == PadLeft(FormatInt(n), w)

RECURSIVE Split(_, _)
\* str.split(sep): the pieces between the occurrences of sep.
Split(s, sep) ==
    LET cut == {i \in DOMAIN s : s[i] = sep}
    IN IF cut = {} THEN <<s>>
       ELSE LET i == CHOOSE k \in cut : \A j \in cut : k <= j
            IN <<SubSeq(s, 1, i - 1)>> \o Split(SubSeq(s, i + 1, Len(s)), sep)

RECURSIVE Join(_, _)
\* sep.join(pieces)
Join(pieces, sep) ==
    IF pieces = <<>> THEN <<>>
    ELSE IF Len(pieces) = 1 THEN pieces[1]
    ELSE pieces[1] \o <<sep>> \o Join(Tail(pieces), sep)

\* Path.stem of a name ending in one suffix.
Stem(name) == IF Last(name) \in {".jpg", ".txt"} THEN Front(name) ELSE name

-----------------------------------------------------------------------------
(* split_false_positives.py: metadata and destination names                *)

\* Whether datetime.strptime(stem, DATE_FORMAT_INPUT) accepts the stem, with
\* DATE_FORMAT_INPUT = "%Y-%m-%dT%H-%M-%S": %Y takes four digits, the other
\* directives one or two.
StrptimeAccepts(stem) ==
    LET halves == Split(stem, "T")
    IN /\ Len(halves) = 2
       /\ LET date == Split(halves[1], "-")
              time == Split(halves[2], "-")
          IN /\ Len(date) = 3 /\ Len(time) = 3
             /\ \A i \in 1..3 : IsNumber(date[i]) /\ IsNumber(time[i])
             /\ Len(date[1]) = 4
             /\ \A i \in 2..3 : Len(date[i]) <= 2
             /\ \A i \in 1..3 : Len(time[i]) <= 2
             /\ ParseInt(date[2]) \in 1..12 /\ ParseInt(date[3]) \in 1..31
             /\ ParseInt(time[1]) \in 0..23 /\ ParseInt(time[2]) \in 0..59
             /\ ParseInt(time[3]) \in 0..61

\* datetime.strptime(stem, DATE_FORMAT_INPUT): <<year, month, day, hour, minute, second>>.
Strptime(stem) ==
    LET halves == Split(stem, "T")
        date == Split(halves[1], "-")
        time == Split(halves[2], "-")
    IN <<ParseInt(date[1]), ParseInt(date[2]), ParseInt(date[3]),
         ParseInt(time[1]), ParseInt(time[2]), ParseInt(time[3])>>

\* datetime.strftime(DATE_FORMAT_OUTPUT).  The format string lives in
\* pyro_dataset.constants; it is taken to keep every field, zero padded.
Strftime(dt) ==
    ZeroPad(dt[1], 4) \o <<"-">> \o ZeroPad(dt[2], 2) \o <<"-">> \o ZeroPad(dt[3], 2)
        \o <<"T">> \o ZeroPad(dt[4], 2) \o <<"-">> \o ZeroPad(dt[5], 2)
        \o <<"-">> \o ZeroPad(dt[6], 2)

\* Whether parse_filepath_image returns (it raises IndexError or ValueError otherwise).
parse_filepath_image_ok(filepath_image) ==
    LET folder_name == filepath_image[Len(filepath_image) - 1]
        tokens == Split(folder_name, "_")
    IN /\ Len(tokens) >= 3
       /\ IsNumber(Last(Split(tokens[3], "-")))
       /\ StrptimeAccepts(Stem(Last(filepath_image)))

\* parse_filepath_image: the ObservationMetadata of an image.
parse_filepath_image(filepath_image) ==
    LET folder_name == filepath_image[Len(filepath_image) - 1]
        camera_group_reference == Split(folder_name, "_")[3]
        camera_reference == Join(Front(Split(camera_group_reference, "-")), "-")
        azimuth_str == Last(Split(camera_group_reference, "-"))
        datetime_str == Stem(Last(filepath_image))
    IN [camera_reference |-> camera_reference,
        datetime |-> Strptime(datetime_str),
        azimuth |-> ParseInt(azimuth_str)]

\* The canonical file name without its extension.
CanonicalName(filepath_image) ==
    LET observation_metadata == parse_filepath_image(filepath_image)
        raw == <<"pyronear", "_">> \o observation_metadata.camera_reference
                  \o <<"-">> \o FormatInt(observation_metadata.azimuth)
        filename_prefix == [i \in DOMAIN raw |-> Lower(raw[i])]
    IN filename_prefix \o <<"_">> \o Strftime(observation_metadata.datetime)

\* to_filepath_image_destination
to_filepath_image_destination(save_dir, filepath_image, split) ==
    save_dir \o <<<<"images">>, <<split>>, CanonicalName(filepath_image) \o <<".jpg">>>>

\* to_filepath_label_destination
to_filepath_label_destination(save_dir, filepath_image, split) ==
    save_dir \o <<<<"labels">>, <<split>>, CanonicalName(filepath_image) \o <<".txt">>>>

-----------------------------------------------------------------------------
(* split_false_positives.py: the split                                     *)

\* A ratio is a fraction num/den with den > 0; the float arithmetic of the
\* script is exact on the ratios the model draws (see Ratios).
RatioInRange(r) == 0 <= r.num /\ r.num <= r.den

\* The two assertions that open make_data_split.
ratios_asserted(ratio_train_val, ratio_val_test) ==
    RatioInRange(ratio_train_val) /\ RatioInRange(ratio_val_test)

\* idx < number_folders * ratio_train_val
BelowTrainBoundary(idx, number_folders, ratio_train_val) ==
    idx * ratio_train_val.den < number_folders * ratio_train_val.num

\* idx < number_folders * (ratio_train_val + (1 - ratio_train_val) * ratio_val_test)
BelowValBoundary(idx, number_folders, ratio_train_val, ratio_val_test) ==
    idx * ratio_train_val.den * ratio_val_test.den
        < number_folders * (ratio_train_val.num * ratio_val_test.den
                            + (ratio_train_val.den - ratio_train_val.num) * ratio_val_test.num)

\* A split rule whose train threshold is inclusive: idx <= number_folders * ratio_train_val.
SplitOfIndexInclusive(idx, number_folders, ratio_train_val, ratio_val_test) ==
    IF idx * ratio_train_val.den <= number_folders * ratio_train_val.num THEN "train"
    ELSE IF BelowValBoundary(idx, number_folders, ratio_train_val, ratio_val_test)
      THEN "val"
    ELSE "test"

\* The if / elif / else of make_data_split's loop, for the folder at 0-based idx.
SplitOfIndex(idx, number_folders, ratio_train_val, ratio_val_test) ==
    IF BelowTrainBoundary(idx, number_folders, ratio_train_val) THEN "train"
    ELSE IF BelowValBoundary(idx, number_folders, ratio_train_val, ratio_val_test)
      THEN "val"
    ELSE "test"

\* A generator seeded from the process (its invocation number), not from the seed.
RandomUnseeded(random_seed) == (7 * run + 3) % 31

\* random.Random(random_seed): the generator's state is a function of the seed alone.
\* The Mersenne Twister is abstracted to a small congruential generator.
Random(random_seed) == (7 * random_seed + 3) % 31

\* Random._randbelow(k): a value in 0..k-1 and the generator's next state.
RandBelow(state, k) ==
    LET next == (11 * state + 5) % 31
    IN [state |-> next, value |-> next % k]

\* A pool from which the picked element is not removed.
PoolKeepsPick(pool, j, last) == pool

\* pool[j] = pool[n - i - 1]: the picked slot is refilled with the last live element.
PoolAfterPick(pool, j, last) == [pool EXCEPT ![j] = pool[last]]

RECURSIVE SampleLoop(_, _, _)
\* The loop of Random.sample over its pool (the branch taken when k = n).
SampleLoop(state, pool, live) ==
    IF live = 0 THEN <<>>
    ELSE LET r == RandBelow(state, live)
             j == r.value + 1
         IN <<pool[j]>> \o SampleLoop(r.state, PoolAfterPick(pool, j, live), live - 1)

\* rng.sample(folders, len(folders))
sample(state, population) == SampleLoop(state, population, Len(population))

\* list_directories: the immediate children of dir_dataset that are directories.
list_directories(f, dir_dataset, reversed) ==
    LET dirs == {p \in DOMAIN f : /\ Len(p) = Len(dir_dataset) + 1
                                  /\ IsPrefix(dir_dataset, p)
                                  /\ IsDir(f, p)}
    IN IF reversed THEN Reverse(Enumerate(dirs)) ELSE Enumerate(dirs)

\* The images make_data_split puts into one split.
ImagesOfSplit(f, folders_shuffled, split, ratio_train_val, ratio_val_test, reversed) ==
    LET number_folders == Len(folders_shuffled)
        part == [i \in DOMAIN folders_shuffled |->
                    IF SplitOfIndex(i - 1, number_folders, ratio_train_val, ratio_val_test) = split
                    THEN GlobJpg(f, folders_shuffled[i], reversed)
                    ELSE <<>>]
    IN Flatten(part)

\* make_data_split, past its assertions.
make_data_split(f, dir_dataset, random_seed, ratio_train_val, ratio_val_test, reversed) ==
    LET rng == Random(random_seed)
        folders_listed == list_directories(f, dir_dataset, reversed)
        folders_shuffled == sample(rng, folders_listed)
    IN [train |-> ImagesOfSplit(f, folders_shuffled, "train", ratio_train_val, ratio_val_test, reversed),
        val |-> ImagesOfSplit(f, folders_shuffled, "val", ratio_train_val, ratio_val_test, reversed),
        test |-> ImagesOfSplit(f, folders_shuffled, "test", ratio_train_val, ratio_val_test, reversed)]

\* The iterations of persist_data_split's two loops, in order.
PersistWork(split) ==
    [i \in DOMAIN split.train |-> [split |-> "train", filepath_image |-> split.train[i]]]
    \o [i \in DOMAIN split.val |-> [split |-> "val", filepath_image |-> split.val[i]]]
    \o [i \in DOMAIN split.test |-> [split |-> "test", filepath_image |-> split.test[i]]]

\* One iteration of persist_data_split; the caller has checked that parsing succeeds.
persist_step(f, save_dir, filepath_image, split) ==
    LET filepath_image_destination == to_filepath_image_destination(save_dir, filepath_image, split)
        filepath_label_destination == to_filepath_label_destination(save_dir, filepath_image, split)
        f1 == MkdirP(f, Front(filepath_image_destination))
        f2 == MkdirP(f1, Front(filepath_label_destination))
        f3 == Copy(f2, filepath_image, filepath_image_destination)
    IN Touch(f3, filepath_label_destination)

-----------------------------------------------------------------------------
(* The datasets and command lines the model draws from.                    *)

Name(t) == <<t>>

SaveDir == <<Name("out")>>

\* --dir-dataset of the filter script: a plain root, and one whose own name is "images".
FilterRoots == {<<Name("data")>>, <<Name("images")>>}

\* Image files of the filter dataset, relative to the root.
FilterCandidates ==
    << <<Name("images"), Name("train"), <<"pyronear", "_", "a", ".jpg">>>>,
       <<Name("images"), Name("train"), <<"PYRONEAR", "_", "b", ".jpg">>>>,
       <<Name("images"), Name("val"), <<"other", "_", "a", ".jpg">>>>,
       <<Name("images"), Name("val"), <<"awf", ".jpg">>>>,
       <<Name("images"), <<"images", "_", "c", ".jpg">>>> >>

\* What may sit at an image's label path.
LabelStates == {"missing", "empty", "data", "dir"}

\* --allowed-dataset-prefixes: the default, a list naming a whole file name, an upper-case one.
Allowlists ==
    { <<Name("pyronear"), Name("awf"), Name("random"), Name("adf")>>,
      <<Name("other"), <<"awf", ".jpg">>, Name("images")>>,
      <<Name("PYRONEAR")>> }

\* --dir-dataset of the split script.
SplitRoot == <<Name("fp")>>

T1 == <<"2", "0", "2", "4", "-", "0", "1", "-", "0", "2", "T", "0", "3", "-", "0", "4", "-", "0", "5", ".jpg">>
T2 == <<"2", "0", "2", "4", "-", "0", "1", "-", "0", "2", "T", "0", "3", "-", "0", "4", "-", "0", "6", ".jpg">>

\* Session folders of the split dataset with the image files each holds.
SplitCandidates ==
    << [name |-> <<"fp", "_", "2024", "_", "brison", "-", "4", "5">>, files |-> <<T1, T2>>],
       [name |-> <<"fp", "_", "2023", "_", "Brison", "-", "0", "4", "5">>, files |-> <<T1>>],
       [name |-> <<"fp", "_", "2024", "_", "st", "-", "peray", "-", "9", "0">>, files |-> <<T1>>],
       [name |-> <<"fp", "_", "2024", "_", "empty", "-", "0">>, files |-> <<>>],
       [name |-> <<"misc">>, files |-> <<<<"x", ".jpg">>>>] >>

Frac(n, d) == [num |-> n, den |-> d]

\* (--ratio-train-val, --ratio-val-test) pairs: in range, at the ends of the range,
\* the defaults 0.9 and 0.5, and out of range.  Every value is a multiple of 1/8 or
\* 9/10: on these the script's float thresholds compare with an integer index
\* exactly as the fractions do.
RatioPairs ==
    { <<Frac(1, 2), Frac(1, 2)>>, <<Frac(0, 8), Frac(1, 2)>>, <<Frac(8, 8), Frac(1, 2)>>,
      <<Frac(1, 2), Frac(0, 8)>>, <<Frac(1, 4), Frac(8, 8)>>, <<Frac(9, 10), Frac(1, 2)>>,
      <<Frac(9, 8), Frac(1, 2)>>, <<Frac(1, 2), Frac(0 - 1, 8)>> }

\* A filesystem holding the given entries and the directories above them.
MkFs(entries) ==
    LET paths == UNION {Prefixes(p) : p \in DOMAIN entries}
    IN [p \in paths |-> IF p \in DOMAIN entries THEN entries[p] ELSE Dir]

\* The union of two filesystems over different paths.
Merge(f, g) == [p \in DOMAIN f \cup DOMAIN g |-> IF p \in DOMAIN f THEN f[p] ELSE g[p]]

\* The filter dataset: the chosen images, each with its label path in the chosen state.
FilterFs(root, chosen, label) ==
    LET image(k) == root \o FilterCandidates[k]
        labelled == {k \in chosen : label[k] # "missing"}
        imgs == [p \in {image(k) : k \in chosen} |->
                    File(<<CHOOSE k \in chosen : image(k) = p>>)]
        lbls == [p \in {filepath_image_to_filepath_label(image(k)) : k \in labelled} |->
                    LET k == CHOOSE j \in labelled : filepath_image_to_filepath_label(image(j)) = p
                    IN CASE label[k] = "empty" -> File(<<>>)
                         [] label[k] = "data" -> File(<<k, k>>)
                         [] label[k] = "dir" -> Dir]
    IN Merge(Merge(MkFs(imgs), MkFs(lbls)), MkFs([p \in {root} |-> Dir]))

\* The split dataset: the chosen session folders and a stray image beside them.
SplitFs(chosen) ==
    LET image(k, i) == SplitRoot \o <<SplitCandidates[k].name, SplitCandidates[k].files[i]>>
        slots == {<<k, i>> \in chosen \X (1..2) : i <= Len(SplitCandidates[k].files)}
        imgs == [p \in {image(s[1], s[2]) : s \in slots} |->
                    File(CHOOSE s \in slots : image(s[1], s[2]) = p)]
        dirs == [p \in {SplitRoot \o <<SplitCandidates[k].name>> : k \in chosen} |-> Dir]
        stray == [p \in {SplitRoot \o <<<<"notes", ".jpg">>>>} |-> File(<<0>>)]
    IN Merge(Merge(MkFs(imgs), MkFs(dirs)), MkFs(stray))

\* What a save directory left by an earlier, different run may hold.
StaleFilter == MkFs([p \in {SaveDir \o <<<<"old", ".txt">>>>} |-> File(<<9>>)])
StaleSplit ==
    LET image == SplitRoot \o <<SplitCandidates[1].name, T1>>
    IN MkFs([p \in {to_filepath_image_destination(SaveDir, image, "train"),
                     to_filepath_label_destination(SaveDir, image, "train")} |-> File(<<9>>)])

-----------------------------------------------------------------------------
(* The two scripts as processes.                                           *)

NoSplit == [train |-> <<>>, val |-> <<>>, test |-> <<>>]

NoHist == [tree |-> <<>>, kept |-> <<>>, data_split |-> NoSplit, folders |-> <<>>,
           rev |-> FALSE]

NoArgs == [allowed_dataset_prefixes |-> <<>>, random_seed |-> 0,
           ratio_train_val |-> Frac(0, 1), ratio_val_test |-> Frac(0, 1)]

Fresh ==
    /\ pc = "start" /\ run = 1 /\ status = NoStatus
    /\ folders = <<>> /\ filepaths_images = <<>> /\ kept = <<>>
    /\ data_split = NoSplit /\ cursor = 1 /\ ops = {} /\ written = {}
    /\ hist = NoHist /\ fs0 = fs

\* The filter script is started on some dataset with some command line.
InitFilter ==
    /\ script = "filter"
    /\ rev \in BOOLEAN
    /\ \E root \in FilterRoots, allow \in Allowlists, stale \in BOOLEAN,
          chosen \in SUBSET (1..Len(FilterCandidates)) :
          /\ Cardinality(chosen) <= MaxImages
          /\ args = [NoArgs EXCEPT !.allowed_dataset_prefixes = allow]
                       @@ [dir_dataset |-> root, save_dir |-> SaveDir]
          /\ \/ \E label \in [chosen -> LabelStates] :
                   fs = IF stale THEN Merge(FilterFs(root, chosen, label), StaleFilter)
                        ELSE FilterFs(root, chosen, label)
             \/ /\ chosen = {}
                /\ fs = IF stale THEN StaleFilter ELSE <<>>
    /\ Fresh

\* The split script is started on some dataset with some command line.
InitSplit ==
    /\ script = "split"
    /\ rev \in BOOLEAN
    /\ \E seed \in 0..MaxSeed, ratios \in RatioPairs, stale \in BOOLEAN,
          chosen \in SUBSET (1..Len(SplitCandidates)) :
          /\ Cardinality(chosen) <= MaxFolders
          /\ args = [NoArgs EXCEPT !.random_seed = seed,
                                   !.ratio_train_val = ratios[1],
                                   !.ratio_val_test = ratios[2]]
                       @@ [dir_dataset |-> SplitRoot, save_dir |-> SaveDir]
          /\ \/ fs = IF stale THEN Merge(SplitFs(chosen), StaleSplit) ELSE SplitFs(chosen)
             \/ /\ chosen = {}
                /\ fs = IF stale THEN StaleSplit ELSE <<>>
    /\ Fresh

Init == InitFilter \/ InitSplit

\* exit(code)
Exit(code) == pc' = "done" /\ status' = code

\* An uncaught exception ends the interpreter with status 1.
Raise == pc' = "crashed" /\ status' = 1

\* __main__ of both scripts: validate_parsed_args fails, exit(1).
ValidateFails ==
    /\ pc = "start"
    /\ ~validate_parsed_args(fs, args)
    /\ Exit(1)
    /\ UNCHANGED <<script, run, args, fs, fs0, rev, folders, filepaths_images, kept,
                   data_split, cursor, ops, written, hist>>

\* __main__ of both scripts: validate_parsed_args passes.
ValidatePasses ==
    /\ pc = "start"
    /\ validate_parsed_args(fs, args)
    /\ pc' = "mkdir"
    /\ UNCHANGED <<script, run, status, args, fs, fs0, rev, folders, filepaths_images,
                   kept, data_split, cursor, ops, written, hist>>

\* __main__ of both scripts: save_dir.mkdir(parents=True, exist_ok=True).
MkSaveDir ==
    /\ pc = "mkdir"
    /\ fs' = MkdirP(fs, args.save_dir)
    /\ ops' = ops \cup {"mkdir"}
    /\ pc' = IF script = "filter" THEN "list" ELSE "split"
    /\ UNCHANGED <<script, run, status, args, fs0, rev, folders, filepaths_images, kept,
                   data_split, cursor, written, hist>>

\* filter __main__: filepaths_images = list_dataset_images(dir_dataset).
FilterList ==
    /\ script = "filter" /\ pc = "list"
    /\ filepaths_images' = list_dataset_images(fs, args.dir_dataset, rev)
    /\ ops' = ops \cup {"list"}
    /\ pc' = "filter"
    /\ UNCHANGED <<script, run, status, args, fs, fs0, rev, folders, kept, data_split,
                   cursor, written, hist>>

\* filter __main__: filepaths_images_with_smoke = filter_dataset(...).
FilterDataset ==
    /\ script = "filter" /\ pc = "filter"
    /\ kept' = filter_dataset(fs, filepaths_images, args.allowed_dataset_prefixes)
    /\ ops' = ops \cup {"filter"}
    /\ cursor' = 1
    /\ pc' = "copy"
    /\ UNCHANGED <<script, run, status, args, fs, fs0, rev, folders, filepaths_images,
                   data_split, written, hist>>

\* copy_over: one iteration of the loop.
CopyOverStep ==
    /\ script = "filter" /\ pc = "copy" /\ cursor <= Len(kept)
    /\ ~copy_over_raises(fs, kept[cursor], args.dir_dataset)
    /\ fs' = copy_over_step(fs, kept[cursor], args.save_dir, args.dir_dataset)
    /\ ops' = ops \cup {"mkdir", "copy"}
    /\ cursor' = cursor + 1
    /\ UNCHANGED <<script, pc, run, status, args, fs0, rev, folders, filepaths_images,
                   kept, data_split, written, hist>>

\* copy_over: an iteration raises; the exception is not caught and the process dies.
CopyOverRaises ==
    /\ script = "filter" /\ pc = "copy" /\ cursor <= Len(kept)
    /\ copy_over_raises(fs, kept[cursor], args.dir_dataset)
    /\ fs' = copy_over_raised(fs, kept[cursor], args.save_dir, args.dir_dataset)
    /\ Raise
    /\ UNCHANGED <<script, run, args, fs0, rev, folders, filepaths_images, kept,
                   data_split, cursor, ops, written, hist>>

\* filter __main__: copy_over has returned, exit(0).
FilterExit ==
    /\ script = "filter" /\ pc = "copy" /\ cursor > Len(kept)
    /\ Exit(0)
    /\ UNCHANGED <<script, run, args, fs, fs0, rev, folders, filepaths_images, kept,
                   data_split, cursor, ops, written, hist>>

\* split __main__: list_directories for the log line, then make_data_split, whose
\* assertion on the ratios fails.
MakeDataSplitAsserts ==
    /\ script = "split" /\ pc = "split"
    /\ ~ratios_asserted(args.ratio_train_val, args.ratio_val_test)
    /\ folders' = list_directories(fs, args.dir_dataset, rev)
    /\ ops' = ops \cup {"list"}
    /\ Raise
    /\ UNCHANGED <<script, run, args, fs, fs0, rev, filepaths_images, kept, data_split,
                   cursor, written, hist>>

\* split __main__: list_directories for the log line, then make_data_split returns.
MakeDataSplit ==
    /\ script = "split" /\ pc = "split"
    /\ ratios_asserted(args.ratio_train_val, args.ratio_val_test)
    /\ folders' = list_directories(fs, args.dir_dataset, rev)
    /\ data_split' = make_data_split(fs, args.dir_dataset, args.random_seed,
                                     args.ratio_train_val, args.ratio_val_test, rev)
    /\ ops' = ops \cup {"list", "split"}
    /\ cursor' = 1
    /\ pc' = "persist"
    /\ UNCHANGED <<script, run, status, args, fs, fs0, rev, filepaths_images, kept,
                   written, hist>>

\* persist_data_split: one iteration of the loops.
PersistStep ==
    /\ script = "split" /\ pc = "persist" /\ cursor <= Len(PersistWork(data_split))
    /\ LET work == PersistWork(data_split)[cursor]
       IN /\ parse_filepath_image_ok(work.filepath_image)
          /\ fs' = persist_step(fs, args.save_dir, work.filepath_image, work.split)
          /\ written' = written \cup
                {[src |-> work.filepath_image, split |-> work.split,
                  dst |-> to_filepath_image_destination(args.save_dir, work.filepath_image,
                                                        work.split)]}
    /\ ops' = ops \cup {"mkdir", "copy", "touch"}
    /\ cursor' = cursor + 1
    /\ UNCHANGED <<script, pc, run, status, args, fs0, rev, folders, filepaths_images,
                   kept, data_split, hist>>

\* persist_data_split: parse_filepath_image raises on the next image.
PersistRaises ==
    /\ script = "split" /\ pc = "persist" /\ cursor <= Len(PersistWork(data_split))
    /\ ~parse_filepath_image_ok(PersistWork(data_split)[cursor].filepath_image)
    /\ Raise
    /\ UNCHANGED <<script, run, args, fs, fs0, rev, folders, filepaths_images, kept,
                   data_split, cursor, ops, written, hist>>

\* split __main__: persist_data_split has returned, exit(0).
SplitExit ==
    /\ script = "split" /\ pc = "persist" /\ cursor > Len(PersistWork(data_split))
    /\ Exit(0)
    /\ UNCHANGED <<script, run, args, fs, fs0, rev, folders, filepaths_images, kept,
                   data_split, cursor, ops, written, hist>>

\* The operator runs the same command line again on the unchanged dataset.
Rerun ==
    /\ pc = "done" /\ status = 0 /\ run = 1
    /\ run' = 2
    /\ pc' = "start" /\ status' = NoStatus
    /\ hist' = [tree |-> Tree(fs, args.save_dir), kept |-> kept,
                data_split |-> data_split, folders |-> folders, rev |-> rev]
    /\ rev' \in BOOLEAN
    /\ fs0' = fs
    /\ folders' = <<>> /\ filepaths_images' = <<>> /\ kept' = <<>>
    /\ data_split' = NoSplit /\ cursor' = 1 /\ ops' = {} /\ written' = {}
    /\ UNCHANGED <<script, args, fs>>

Next ==
    \/ ValidateFails \/ ValidatePasses \/ MkSaveDir
    \/ FilterList \/ FilterDataset \/ CopyOverStep \/ CopyOverRaises \/ FilterExit
    \/ MakeDataSplitAsserts \/ MakeDataSplit \/ PersistStep \/ PersistRaises \/ SplitExit
    \/ Rerun

Spec == Init /\ [][Next]_vars

-----------------------------------------------------------------------------
(* The boundary rule of make_data_split on its own: the loop over the      *)
(* shuffled folders, each folder standing for its images.                  *)

\* Ratios in [0, 1]: the multiples of 1/8 and the default 0.9.
Ratios ==
    {Frac(0, 1), Frac(1, 8), Frac(1, 4), Frac(3, 8), Frac(1, 2), Frac(5, 8), Frac(3, 4),
     Frac(7, 8), Frac(1, 1), Frac(9, 10)}

InitBoundary ==
    /\ script = "boundary"
    /\ \E n \in 0..MaxN, ratio_train_val \in Ratios, ratio_val_test \in Ratios :
          /\ folders = [i \in 1..n |-> i - 1]
          /\ args = [NoArgs EXCEPT !.ratio_train_val = ratio_train_val,
                                   !.ratio_val_test = ratio_val_test]
    /\ fs = <<>> /\ rev = FALSE
    /\ filepaths_images = <<>> /\ kept = <<>>
    /\ pc = "split" /\ run = 1 /\ status = NoStatus
    /\ data_split = NoSplit /\ cursor = 1 /\ ops = {} /\ written = {}
    /\ hist = NoHist /\ fs0 = fs

\* One iteration of make_data_split's loop: folder idx = cursor - 1 is assigned.
BoundaryStep ==
    /\ script = "boundary" /\ pc = "split" /\ cursor <= Len(folders)
    /\ LET idx == cursor - 1
           split == SplitOfIndex(idx, Len(folders), args.ratio_train_val, args.ratio_val_test)
       IN data_split' = [data_split EXCEPT ![split] = Append(@, folders[cursor])]
    /\ cursor' = cursor + 1
    /\ UNCHANGED <<script, pc, run, status, args, fs, fs0, rev, folders, filepaths_images,
                   kept, ops, written, hist>>

\* make_data_split returns the DataSplit.
BoundaryReturn ==
    /\ script = "boundary" /\ pc = "split" /\ cursor > Len(folders)
    /\ pc' = "persist"
    /\ UNCHANGED <<script, run, status, args, fs, fs0, rev, folders, filepaths_images,
                   kept, data_split, cursor, ops, written, hist>>

NextBoundary == BoundaryStep \/ BoundaryReturn

SpecBoundary == InitBoundary /\ [][NextBoundary]_vars

-----------------------------------------------------------------------------
(* Properties.                                                             *)

\* C1: once make_data_split has returned (ratios in [0,1]), train, val and test are
\* pairwise disjoint, together they are exactly the images found under the session
\* folders, and the images of one folder all lie in a single split.
C1_SplitPartitionsByFolder ==
    (script = "split" /\ "split" \in ops) =>
        LET train == Range(data_split.train)
            val == Range(data_split.val)
            test == Range(data_split.test)
            root == args.dir_dataset
            session == {d \in DOMAIN fs : Len(d) = Len(root) + 1 /\ IsPrefix(root, d)
                                          /\ fs[d].kind = "dir"}
            under(d) == {p \in DOMAIN fs : Len(p) > Len(d) /\ IsPrefix(d, p)
                                           /\ Last(Last(p)) = ".jpg"}
        IN /\ train \cap val = {} /\ train \cap test = {} /\ val \cap test = {}
           /\ train \cup val \cup test = UNION {under(d) : d \in session}
           /\ \A d \in session :
                 Cardinality({part \in {train, val, test} : under(d) \cap part # {}}) <= 1

\* C1 witness: three folders were split and images went to two different splits.
C1_Witness ==
    /\ script = "split" /\ "split" \in ops /\ Len(folders) = 3
    /\ Len(data_split.train) >= 2 /\ Len(data_split.val) >= 1

\* C2: filter_dataset keeps a listed image exactly when its paired label exists, is a
\* regular file of size > 0, and the lower-cased first "_"-delimited token of the file
\* name is in the allowlist; an image with a missing label is left out and the
\* process goes on to the copy stage.
C2_FilterKeepsSmokeWithAllowedPrefix ==
    (script = "filter" /\ "filter" \in ops) =>
        /\ \A i \in DOMAIN filepaths_images :
              LET image == filepaths_images[i]
                  label == filepath_image_to_filepath_label(image)
                  first == Split(Last(image), "_")[1]
                  token == [j \in DOMAIN first |-> Lower(first[j])]
                  allow == args.allowed_dataset_prefixes
              IN (image \in Range(kept)) <=>
                    /\ label \in DOMAIN fs
                    /\ fs[label].kind = "file"
                    /\ Len(fs[label].data) > 0
                    /\ \E j \in DOMAIN allow : allow[j] = token
        /\ (pc = "crashed" => cursor <= Len(kept))

\* C2 witness: one listed image was kept, another with a missing label was left out.
C2_Witness ==
    /\ script = "filter" /\ "filter" \in ops
    /\ Len(kept) >= 1
    /\ \E i \in DOMAIN filepaths_images :
          /\ filepath_image_to_filepath_label(filepaths_images[i]) \notin DOMAIN fs
          /\ filepaths_images[i] \notin Range(kept)

\* C3: in both scripts, with the dataset root missing the process only ever exits
\* with status 1 and has neither created the save directory nor listed, copied or
\* touched anything; with the root present, a run that reaches exit() ends with 0.
C3_MissingRootExitsOneUntouched ==
    (script \in {"filter", "split"}) =>
        /\ ~Exists(fs0, args.dir_dataset) =>
              /\ pc \in {"start", "done"}
              /\ pc = "done" => status = 1
              /\ fs = fs0 /\ ops = {} /\ written = {}
              /\ ~Exists(fs0, args.save_dir) => ~Exists(fs, args.save_dir)
        /\ (Exists(fs0, args.dir_dataset) /\ pc = "done") => status = 0

\* C3 witness: the split script has exited on a missing root with no save directory.
C3_Witness ==
    /\ script = "split" /\ pc = "done" /\ status = 1
    /\ ~Exists(fs0, args.dir_dataset) /\ ~Exists(fs, args.save_dir)

\* C4 (as claimed): with a ratio outside [0,1] the split script has mutated nothing,
\* and once terminated its status is not 0.
C4_RatioRejectedBeforeMutation ==
    (script = "split" /\ ~ratios_asserted(args.ratio_train_val, args.ratio_val_test)) =>
        /\ fs = fs0
        /\ pc \in {"done", "crashed"} => status # 0

\* C5: the folder at 0-based index idx of n shuffled folders goes to train iff
\* idx < n*rtv, to val iff n*rtv <= idx < n*(rtv + (1 - rtv)*rvt), to test otherwise;
\* train folders precede val folders, which precede test folders; and n = 10,
\* rtv = 0.9, rvt = 0.5 gives train = indices 0..8, val = index 9, test empty.
C5_BoundaryRule ==
    (script = "boundary") =>
        LET n == Len(folders)
            a == args.ratio_train_val
            b == args.ratio_val_test
            train == Range(data_split.train)
            val == Range(data_split.val)
            test == Range(data_split.test)
            \* idx < n * a and idx < n * (a + (1 - a) * b), cleared of denominators
            lt1(idx) == idx * a.den < n * a.num
            lt2(idx) == idx * a.den * b.den < n * (a.num * b.den + (a.den - a.num) * b.num)
        IN /\ \A idx \in 0..(cursor - 2) :
                 /\ idx \in train <=> lt1(idx)
                 /\ idx \in val <=> (~lt1(idx) /\ lt2(idx))
                 /\ idx \in test <=> ~(lt1(idx) \/ (~lt1(idx) /\ lt2(idx)))
           /\ \A i \in train, j \in val \cup test : i < j
           /\ \A i \in val, j \in test : i < j
           /\ (n = 10 /\ a = Frac(9, 10) /\ b = Frac(1, 2) /\ pc = "persist") =>
                 /\ data_split.train = <<0, 1, 2, 3, 4, 5, 6, 7, 8>>
                 /\ data_split.val = <<9>>
                 /\ data_split.test = <<>>

\* C5 witness: the example of ten folders with ratios 0.9 and 0.5 has been split.
C5_Witness ==
    /\ script = "boundary" /\ pc = "persist" /\ Len(folders) = 10
    /\ args.ratio_train_val = Frac(9, 10) /\ args.ratio_val_test = Frac(1, 2)
    /\ Len(data_split.train) = 9 /\ Len(data_split.val) = 1

C7_PersistedLabelsEmpty ==
    (script = "split" /\ pc = "done" /\ status = 0) =>
        \A i \in DOMAIN PersistWork(data_split) :
            LET work == PersistWork(data_split)[i]
                image == to_filepath_image_destination(args.save_dir, work.filepath_image, work.split)
                label == to_filepath_label_destination(args.save_dir, work.filepath_image, work.split)
            IN /\ IsFile(fs, label) /\ fs[label].data = <<>>
               /\ IsFile(fs, image) /\ fs[image].data = fs[work.filepath_image].data

\* C8: a second run of the copy stage (copy_over, persist_data_split) on the same
\* input list and an unchanged source tree leaves the destination tree, paths and
\* bytes, as the first run left it.
C8_CopyStageIdempotent ==
    (/\ script \in {"filter", "split"} /\ run = 2 /\ pc = "done" /\ status = 0
     /\ kept = hist.kept /\ data_split = hist.data_split) =>
        Tree(fs, args.save_dir) = hist.tree

\* C8 witness: the split script has persisted two or more images a second time.
C8_Witness ==
    /\ script = "split" /\ run = 2 /\ pc = "done" /\ status = 0
    /\ data_split = hist.data_split /\ Cardinality(written) >= 2

\* C9: from an empty save directory, when copy_over has completed the save directory
\* holds, for every kept image at R below the root, the image at save_dir/R and its
\* label at save_dir/R' (R with images -> labels, .jpg -> .txt), each with the
\* source's bytes, and no other file.
C9_CopyOverMirrorsKept ==
    (/\ script = "filter" /\ pc = "done" /\ status = 0
     /\ DOMAIN Tree(fs0, args.save_dir) = {}) =>
        LET root == args.dir_dataset
            R(image) == SubSeq(image, Len(root) + 1, Len(image))
            Rl(image) == [i \in DOMAIN R(image) |->
                            [j \in DOMAIN R(image)[i] |-> ReplaceToken(R(image)[i][j])]]
            tree == Tree(fs, args.save_dir)
        IN /\ \A k \in DOMAIN kept :
                 /\ R(kept[k]) \in DOMAIN tree /\ tree[R(kept[k])] = fs[kept[k]].data
                 /\ Rl(kept[k]) \in DOMAIN tree
                 /\ tree[Rl(kept[k])] = fs[root \o Rl(kept[k])].data
           /\ DOMAIN tree = {R(kept[k]) : k \in DOMAIN kept} \cup {Rl(kept[k]) : k \in DOMAIN kept}

\* C9 witness: copy_over has mirrored two kept images into an empty save directory.
C9_Witness ==
    /\ script = "filter" /\ pc = "done" /\ status = 0 /\ run = 1
    /\ DOMAIN Tree(fs0, args.save_dir) = {} /\ Len(kept) = 2

\* C10 (as claimed): two distinct source images persisted in one run never get the
\* same canonical file name, so after the run there are as many destination images
\* as images in the split.
C10_CanonicalNamesInjective ==
    (script = "split") =>
        /\ \A v \in written, w \in written : v.src # w.src => Last(v.dst) # Last(w.dst)
        /\ (pc = "done" /\ status = 0) =>
              Cardinality({w.dst : w \in written}) = Len(PersistWork(data_split))

=============================================================================
